---------------------------- MODULE Spec2Model ----------------------------
(***************************************************************************)
(* Model of the one-layer fast follow-up flow of src/main.py:              *)
(* FollowupProposer._parse, OneLayerFastFollow (ask, peek_immediate,       *)
(* rotate_next_layer, _menu_text) and the two Gradio handlers              *)
(* submit_or_choose and choose_btn that drive the single global `flow`.    *)
(*                                                                         *)
(* A text (Python str) is a sequence of tokens.  Text that the program     *)
(* parses or formats (user input, proposal text, menu entries, rendered    *)
(* menus) is written character by character; text that the program only    *)
(* stores, concatenates and shows (an answer of the language model, a      *)
(* fixed message) is a single token.  The empty str is << >>.              *)
(***************************************************************************)
EXTENDS Integers, Sequences, FiniteSets, TLC

(***************************************************************************)
(* Bounds of the model.                                                    *)
(***************************************************************************)
\* number of transcript entries after which the user of session 1 stops
MaxHistory == 2
\* number of transcript entries after which the user of another session stops
MaxGuestHistory == 1
\* number of lines of the raw texts handed to _parse on its own
MaxLines == 4
\* largest limit k handed to _parse on its own
MaxLimit == 3

(***************************************************************************)
(* Program constants.                                                      *)
(***************************************************************************)
MAX_BTNS == 4

(***************************************************************************)
(* Characters and Python's str / re primitives.                            *)
(***************************************************************************)
NL == "\n"
BULLET == "bullet"       \* the character U+2022
Spaces == {" ", "\t"}
Digits == <<"0", "1", "2", "3", "4", "5", "6", "7", "8", "9">>

IsSpace(c) == c \in Spaces
IsDigitChar(c) == \E d \in 1..10 : Digits[d] = c

UpperCase == <<"A","B","C","D","E","F","G","H","I","J","K","L","M",
               "N","O","P","Q","R","S","T","U","V","W","X","Y","Z">>
LowerCase == <<"a","b","c","d","e","f","g","h","i","j","k","l","m",
               "n","o","p","q","r","s","t","u","v","w","x","y","z">>

\* str.lower() on one character
LowerChar(c) ==
    IF \E i \in 1..26 : UpperCase[i] = c
    THEN LowerCase[CHOOSE i \in 1..26 : UpperCase[i] = c]
    ELSE c

\* str.lower()
lower(t) == [i \in 1..Len(t) |-> LowerChar(t[i])]

\* str.startswith(prefix)
startswith(t, prefix) ==
    /\ Len(prefix) <= Len(t)
    /\ SubSeq(t, 1, Len(prefix)) = prefix

RECURSIVE lstrip(_)
\* drops the leading whitespace (str.lstrip, and a greedy leading \s* )
lstrip(t) ==
    IF t # <<>> /\ IsSpace(Head(t)) THEN lstrip(Tail(t)) ELSE t

RECURSIVE rstrip(_)
\* drops the trailing whitespace (str.rstrip, and the trailing \s*$ )
rstrip(t) ==
    IF t # <<>> /\ IsSpace(t[Len(t)]) THEN rstrip(SubSeq(t, 1, Len(t) - 1)) ELSE t

\* str.strip()
strip(t) == rstrip(lstrip(t))

RECURSIVE DropDigits(_)
\* the text after a greedy \d*
DropDigits(t) ==
    IF t # <<>> /\ IsDigitChar(Head(t)) THEN DropDigits(Tail(t)) ELSE t

\* str.isdigit()
isdigit(t) == t # <<>> /\ \A i \in 1..Len(t) : IsDigitChar(t[i])

DigitValue(c) == (CHOOSE d \in 1..10 : Digits[d] = c) - 1

RECURSIVE int(_)
\* int(text) of a text for which isdigit() holds
int(t) ==
    IF t = <<>> THEN 0
    ELSE 10 * int(SubSeq(t, 1, Len(t) - 1)) + DigitValue(t[Len(t)])

RECURSIVE str(_)
\* str(n) of a natural number
str(n) ==
    IF n < 10 THEN <<Digits[n + 1]>>
    ELSE Append(str(n \div 10), Digits[(n % 10) + 1])

RECURSIVE splitlines(_)
\* str.splitlines(): the lines of a text, without their line ends; a line
\* end at the very end of the text opens no further line
splitlines(text) ==
    IF text = <<>> THEN <<>>
    ELSE IF \E i \in 1..Len(text) : text[i] = NL
         THEN LET i == CHOOSE j \in 1..Len(text) :
                           /\ text[j] = NL
                           /\ \A h \in 1..(j - 1) : text[h] # NL
              IN  <<SubSeq(text, 1, i - 1)>>
                     \o splitlines(SubSeq(text, i + 1, Len(text)))
         ELSE <<text>>

RECURSIVE join(_)
\* "\n".join(lines)
join(lines) ==
    IF lines = <<>> THEN <<>>
    ELSE IF Len(lines) = 1 THEN lines[1]
    ELSE lines[1] \o <<NL>> \o join(Tail(lines))

(***************************************************************************)
(* FollowupProposer._parse                                                 *)
(***************************************************************************)
NoMatch == [ok |-> FALSE, group1 |-> <<>>]

\* re.match(r'^\s*(?:\d+\.\s*|[-bullet]\s*)?(.*\S)\s*$', raw): the leading
\* \s* is greedy, the optional marker is tried before it is skipped, and a
\* marker after which no non-space character is left makes the matcher
\* backtrack and put the marker itself into group 1.
ReMatch(raw) ==
    LET body == lstrip(raw)
        afterDigits == DropDigits(body)
        numbered == /\ body # <<>>
                    /\ IsDigitChar(Head(body))
                    /\ afterDigits # <<>>
                    /\ Head(afterDigits) = "."
        afterNumber == lstrip(Tail(afterDigits))
        bulleted == body # <<>> /\ Head(body) \in {"-", BULLET}
        afterBullet == lstrip(Tail(body))
    IN  IF body = <<>> THEN NoMatch
        ELSE IF numbered /\ afterNumber # <<>>
             THEN [ok |-> TRUE, group1 |-> rstrip(afterNumber)]
        ELSE IF bulleted /\ afterBullet # <<>>
             THEN [ok |-> TRUE, group1 |-> rstrip(afterBullet)]
        ELSE [ok |-> TRUE, group1 |-> rstrip(body)]

Headers == { <<"f","o","l","l","o","w","-","u","p","s">>,
             <<"f","o","l","l","o","w","u","p","s">>,
             <<"q","u","e","s","t","i","o","n","s",":">> }

\* a header test without lower()
IsHeaderCaseSensitive(t) == \E h \in Headers : startswith(t, h)

\* t.lower().startswith(("follow-ups", "followups", "questions:"))
IsHeader(t) == \E h \in Headers : startswith(lower(t), h)

RECURSIVE ParseLoopNoSeen(_, _, _, _)
\* the loop without its `seen` test: every question is appended
ParseLoopNoSeen(lines, items, seen, k) ==
    IF lines = <<>> THEN items
    ELSE LET m == ReMatch(Head(lines))
             t == strip(m.group1)
             items2 == Append(items, t)
         IN  IF ~m.ok THEN ParseLoopNoSeen(Tail(lines), items, seen, k)
             ELSE IF t = <<>> THEN ParseLoopNoSeen(Tail(lines), items, seen, k)
             ELSE IF IsHeader(t) THEN ParseLoopNoSeen(Tail(lines), items, seen, k)
             ELSE IF Len(items2) >= k THEN items2
             ELSE ParseLoopNoSeen(Tail(lines), items2, seen \cup {t}, k)

RECURSIVE ParseLoop(_, _, _, _)
\* the for loop of _parse over the remaining lines
ParseLoop(lines, items, seen, k) ==
    IF lines = <<>> THEN items
    ELSE LET m == ReMatch(Head(lines))
             t == strip(m.group1)
             items2 == IF t \notin seen THEN Append(items, t) ELSE items
         IN  IF ~m.ok THEN ParseLoop(Tail(lines), items, seen, k)
             ELSE IF t = <<>> THEN ParseLoop(Tail(lines), items, seen, k)
             ELSE IF IsHeader(t) THEN ParseLoop(Tail(lines), items, seen, k)
             ELSE IF Len(items2) >= k THEN items2
             ELSE ParseLoop(Tail(lines), items2, seen \cup {t}, k)

_parse(text, k) == ParseLoop(splitlines(text), <<>>, {}, k)

(***************************************************************************)
(* Inputs: what users type and what the TextGenerator returns.             *)
(***************************************************************************)
Sessions == {1, 2}

Q1 == <<"Q", "1">>
Q2 == <<"Q", "2">>
Q3 == <<"Q", "3">>
Q4 == <<"Q", "4">>
Q5 == <<"Q", "5">>

\* text typed into the box: a question, a question with blanks around it,
\* selections (in range, zero, out of range, padded), blank input
UserTexts == { <<" ", "h", "i">>, <<"2", " ">>, <<"0">>, <<"5">>, <<" ">> }

\* MainAnswerSig.answer
MainAnswers == { <<"M1">> }

\* FollowupAnswerSig.answer
AnswerTexts == { <<"A1">> }

\* ProposeFollowupsSig.followups
\*   ""                                  -> []
\*   "Follow-ups:\n1. Q1\n2. Q1\n- Q2"   -> [Q1, Q2]
\*   "1. Q1\n2. Q2\n3. Q3\n4. Q4\n5. Q5" -> [Q1, Q2, Q3, Q4]
Proposals ==
    { <<>>,
      <<"F","o","l","l","o","w","-","u","p","s",":", NL, "1", ".", " ">> \o Q1
          \o <<NL, "2", ".", " ">> \o Q1 \o <<NL, "-", " ">> \o Q2,
      <<"1", ".", " ">> \o Q1 \o <<NL, "2", ".", " ">> \o Q2
          \o <<NL, "3", ".", " ">> \o Q3 \o <<NL, "4", ".", " ">> \o Q4
          \o <<NL, "5", ".", " ">> \o Q5 }

(***************************************************************************)
(* State.                                                                  *)
(***************************************************************************)
VARIABLES
    base,      \* flow.base
    menu,      \* flow.menu
    answers,   \* flow.answers: a function from the keys of the dict
    frame,     \* frame[s]: the locals and the position of the handler
               \* (generator) running for session s
    chatbot,   \* chatbot[s]: the transcript shown in session s
    btn,       \* btn[s][i]: value and visibility of button i in session s
    calls,     \* the TextGenerator calls issued by the running handler
    parse,     \* a call of _parse on its own: its arguments and its result
    chain,     \* history: "ok" after an ask that returned and rotations
               \* with a valid index whose TextGenerator calls all returned
    owner      \* history: the session whose handler last wrote to flow

vars == <<base, menu, answers, frame, chatbot, btn, calls, parse, chain, owner>>

\* the state of the sessions and of flow
flowVars == <<base, menu, answers, frame, chatbot, btn, calls, chain, owner>>

\* Optional[str] = None
None == <<"None">>

\* flow.k, set from MAX_BTNS at construction
k == MAX_BTNS

\* the locals of a handler that is not running
IdleFrame ==
    [pc |-> "idle", text |-> <<>>, idx |-> 0, immediate |-> <<>>,
     main_answer |-> <<>>, base_q |-> <<>>, it |-> <<>>, pos |-> 0,
     snap |-> [base |-> None, menu |-> <<>>, answers |-> <<>>]]

AllIdle == \A s \in Sessions : frame[s].pc = "idle"

\* the state of flow
FlowState == [base |-> base, menu |-> menu, answers |-> answers]

\* gr.Button(visible=False): the label of a button that was never updated
DefaultButton == [value |-> <<"Run">>, visible |-> FALSE]

\* no call of _parse
NoParse == [text |-> <<>>, k |-> 0, items |-> <<>>, done |-> FALSE]

Init ==
    /\ base = None
    /\ menu = <<>>
    /\ answers = <<>>
    /\ frame = [s \in Sessions |-> IdleFrame]
    /\ chatbot = [s \in Sessions |-> <<>>]
    /\ btn = [s \in Sessions |-> [i \in 1..MAX_BTNS |-> DefaultButton]]
    /\ calls = <<>>
    /\ chain = "none"
    /\ owner = 0
    /\ parse = [text |-> <<>>, k |-> k, items |-> <<>>, done |-> FALSE,
                again |-> NoParse]

(***************************************************************************)
(* OneLayerFastFollow                                                      *)
(***************************************************************************)
\* dict.get(key, default)
DictGet(d, key, default) == IF key \in DOMAIN d THEN d[key] ELSE default

\* d[key] = value
DictSet(d, key, value) ==
    [i \in (DOMAIN d) \cup {key} |-> IF i = key THEN value ELSE d[i]]

\* the f-string of peek_immediate
RangeMessage(n) ==
    <<"Please choose a number between 1 and ">> \o str(n) \o <<".">>

NoCachedAnswer == <<"Sorry, no cached answer found.">>

NoFollowups == <<"No follow-ups available. Ask a new question.">>

\* the value peek_immediate returns
peek_immediate(choice_idx) ==
    IF ~(1 <= choice_idx /\ choice_idx <= Len(menu))
    THEN RangeMessage(Len(menu))
    ELSE DictGet(answers, choice_idx, NoCachedAnswer)

\* a peek_immediate that takes the answer out of the cache (dict.pop)
peek_immediate_effect_pop(choice_idx) ==
    /\ answers' = [i \in (DOMAIN answers) \ {choice_idx} |-> answers[i]]
    /\ UNCHANGED <<base, menu, calls>>

\* what peek_immediate does to flow and to the TextGenerator: nothing
peek_immediate_effect(choice_idx) ==
    UNCHANGED <<base, menu, answers, calls>>

\* a _menu_text called with title="Menu"
_menu_text_other_title(m) ==
    IF m = <<>> THEN <<>>
    ELSE LET lines == [i \in 1..Len(m) |-> str(i) \o <<".", " ">> \o m[i]]
         IN  <<NL, NL, "M","e","n","u", ":", NL>> \o join(lines)

\* _menu_text(title="Follow-ups") of a menu
_menu_text(m) ==
    IF m = <<>> THEN <<>>
    ELSE LET lines == [i \in 1..Len(m) |-> str(i) \o <<".", " ">> \o m[i]]
         IN  <<NL, NL, "F","o","l","l","o","w","-","u","p","s", ":", NL>>
                \o join(lines)

\* _buttons_update(menu)
_buttons_update(m) ==
    [i \in 1..MAX_BTNS |->
        IF i - 1 < Len(m) THEN [value |-> m[i], visible |-> TRUE]
        ELSE [value |-> <<>>, visible |-> FALSE]]

\* the result of a TextGenerator call that has not returned yet
InFlight == <<"in flight">>

\* the calls of the three dspy modules
AnswerCall(question) ==
    [kind |-> "Answer", args |-> <<question>>, result |-> InFlight]
ProposeCall(ctx) ==
    [kind |-> "ProposeFollowups", args |-> <<ctx>>, result |-> InFlight]
FollowupAnswerCall(base_q, fu_q) ==
    [kind |-> "FollowupAnswer", args |-> <<base_q, fu_q>>, result |-> InFlight]

\* the call in flight, the last one of the log, returns r
Returned(log, r) == [log EXCEPT ![Len(log)].result = r]

\* the entries the transcript of session s may hold
Room(s) == IF s = 1 THEN MaxHistory ELSE MaxGuestHistory

\* the user of session s acts: no handler is running (each user action runs
\* to its end before the next one starts) and the transcript has room left
Turn(s) == AllIdle /\ Len(chatbot[s]) < Room(s)

(***************************************************************************)
(* submit_or_choose                                                        *)
(***************************************************************************)
\* the handler of session s ends (it returns or an exception leaves it):
\* its locals are gone
Finish(s) ==
    /\ frame' = [frame EXCEPT ![s] = IdleFrame]
    /\ calls' = <<>>

\* digits while flow.menu is empty: lines 123-130
submit_no_menu(s, user_text) ==
    LET text == strip(user_text) IN
    /\ Turn(s)
    /\ frame[s].pc = "idle"
    /\ isdigit(text)
    /\ menu = <<>>
    /\ chatbot' = [chatbot EXCEPT ![s] = Append(@, <<text, NoFollowups>>)]
    /\ Finish(s)
    /\ UNCHANGED <<parse, base, menu, answers, btn, chain, owner>>

\* digits with a menu: lines 123-135, up to the first yield
submit_select(s, user_text) ==
    LET text == strip(user_text)
        idx == int(text)
        immediate == peek_immediate(idx)
    IN
    /\ Turn(s)
    /\ frame[s].pc = "idle"
    /\ isdigit(text)
    /\ menu # <<>>
    /\ peek_immediate_effect(idx)
    /\ chatbot' = [chatbot EXCEPT ![s] = Append(@, <<text, immediate>>)]
    /\ frame' = [frame EXCEPT ![s] =
                    [@ EXCEPT !.pc = "yielded", !.text = text, !.idx = idx,
                              !.immediate = immediate]]
    /\ UNCHANGED <<parse, btn, chain, owner>>

\* a handler that adds blank input to the transcript
submit_empty_echo(s, user_text) ==
    LET text == strip(user_text) IN
    /\ Turn(s)
    /\ frame[s].pc = "idle"
    /\ ~isdigit(text)
    /\ text = <<>>
    /\ chatbot' = [chatbot EXCEPT ![s] = Append(@, <<text, <<>>>>)]
    /\ frame' = [frame EXCEPT ![s] = [@ EXCEPT !.pc = "blank", !.text = text]]
    /\ UNCHANGED <<parse, base, menu, answers, btn, calls, chain, owner>>

\* blank input: lines 123-145, up to the yield, which hands back the
\* transcript it was given and gr.update() for every button
submit_empty(s, user_text) ==
    LET text == strip(user_text) IN
    /\ Turn(s)
    /\ frame[s].pc = "idle"
    /\ ~isdigit(text)
    /\ text = <<>>
    /\ frame' = [frame EXCEPT ![s] = [@ EXCEPT !.pc = "blank", !.text = text]]
    /\ UNCHANGED <<parse, base, menu, answers, chatbot, btn, calls, chain,
                   owner>>

\* the handler resumes after that yield and returns: line 146
submit_empty_return(s) ==
    /\ frame[s].pc = "blank"
    /\ Finish(s)
    /\ UNCHANGED <<parse, base, menu, answers, chatbot, btn, chain, owner>>

\* a new question: lines 123-148 and ask up to the call of line 77
submit_ask(s, user_text) ==
    LET text == strip(user_text) IN
    /\ Turn(s)
    /\ frame[s].pc = "idle"
    /\ ~isdigit(text)
    /\ text # <<>>
    /\ base' = text
    /\ calls' = <<AnswerCall(text)>>
    /\ frame' = [frame EXCEPT ![s] =
                    [@ EXCEPT !.pc = "ask_main", !.text = text,
                              !.base_q = text, !.snap = FlowState]]
    /\ owner' = s
    /\ UNCHANGED <<parse, menu, answers, chatbot, btn, chain>>

(***************************************************************************)
(* choose_btn                                                              *)
(***************************************************************************)
\* a choose_btn without its first yield: the transcript is updated only
\* together with the buttons
choose_btn_one_update(s, i) ==
    LET immediate == peek_immediate(i) IN
    /\ Turn(s)
    /\ frame[s].pc = "idle"
    /\ btn[s][i].visible
    /\ peek_immediate_effect(i)
    /\ frame' = [frame EXCEPT ![s] =
                    [@ EXCEPT !.pc = "yielded", !.text = str(i), !.idx = i,
                              !.immediate = immediate]]
    /\ UNCHANGED <<parse, chatbot, btn, chain, owner>>

\* a click on button i: lines 153-158, up to the first yield
choose_btn(s, i) ==
    LET immediate == peek_immediate(i) IN
    /\ Turn(s)
    /\ frame[s].pc = "idle"
    /\ btn[s][i].visible
    /\ peek_immediate_effect(i)
    /\ chatbot' = [chatbot EXCEPT ![s] = Append(@, <<str(i), immediate>>)]
    /\ frame' = [frame EXCEPT ![s] =
                    [@ EXCEPT !.pc = "yielded", !.text = str(i), !.idx = i,
                              !.immediate = immediate]]
    /\ UNCHANGED <<parse, btn, chain, owner>>

(***************************************************************************)
(* OneLayerFastFollow.ask                                                  *)
(***************************************************************************)
\* self.main returns: lines 77-79, up to the call of self.propose
ask_main(s) ==
    /\ frame[s].pc = "ask_main"
    /\ \E main_answer \in MainAnswers :
          LET ctx == <<"User question: ">> \o frame[s].base_q
                        \o <<"\nAnswer: ">> \o main_answer
          IN  /\ frame' = [frame EXCEPT ![s] =
                              [@ EXCEPT !.pc = "ask_propose",
                                        !.main_answer = main_answer]]
              /\ calls' = Append(Returned(calls, main_answer), ProposeCall(ctx))
    /\ UNCHANGED <<parse, base, menu, answers, chatbot, btn, chain, owner>>

\* the first TextGenerator call of the loop over a fresh menu, if any
FirstFollowupCall(base_q, m) ==
    IF m = <<>> THEN <<>> ELSE <<FollowupAnswerCall(base_q, m[1])>>

\* self.propose returns: lines 79-81, up to the first call of the loop
ask_propose(s) ==
    /\ frame[s].pc = "ask_propose"
    /\ \E raw \in Proposals :
          LET parsed == _parse(raw, k) IN
          /\ menu' = parsed
          /\ answers' = <<>>
          /\ frame' = [frame EXCEPT ![s] =
                          [@ EXCEPT !.pc = "ask_fu", !.it = parsed, !.pos = 1]]
          /\ calls' = Returned(calls, raw)
                          \o FirstFollowupCall(frame[s].base_q, parsed)
    /\ owner' = s
    /\ UNCHANGED <<parse, base, chatbot, btn, chain>>

\* the call after the one for entry pos of the menu being iterated, if any
NextFollowupCall(base_q, it, pos) ==
    IF pos < Len(it) THEN <<FollowupAnswerCall(base_q, it[pos + 1])>> ELSE <<>>

\* self.answer_fu returns for one entry: lines 81-82
ask_answer_fu(s) ==
    /\ frame[s].pc = "ask_fu"
    /\ frame[s].pos <= Len(frame[s].it)
    /\ \E a \in AnswerTexts :
          /\ answers' = DictSet(answers, frame[s].pos, a)
          /\ calls' = Returned(calls, a)
                          \o NextFollowupCall(frame[s].base_q, frame[s].it,
                                              frame[s].pos)
    /\ frame' = [frame EXCEPT ![s] = [@ EXCEPT !.pos = @ + 1]]
    /\ owner' = s
    /\ UNCHANGED <<parse, base, menu, chatbot, btn, chain>>

\* an ask whose handler yields the transcript with gr.update() for the
\* buttons
ask_return_transcript_only(s) ==
    LET visible == frame[s].main_answer \o _menu_text(menu) IN
    /\ frame[s].pc = "ask_fu"
    /\ frame[s].pos > Len(frame[s].it)
    /\ chatbot' = [chatbot EXCEPT ![s] = Append(@, <<frame[s].text, visible>>)]
    /\ Finish(s)
    /\ chain' = "ok"
    /\ UNCHANGED <<parse, base, menu, answers, btn, owner>>

\* the loop is over: lines 83-84, then lines 149-151 of submit_or_choose
ask_return(s) ==
    LET visible == frame[s].main_answer \o _menu_text(menu) IN
    /\ frame[s].pc = "ask_fu"
    /\ frame[s].pos > Len(frame[s].it)
    /\ chatbot' = [chatbot EXCEPT ![s] = Append(@, <<frame[s].text, visible>>)]
    /\ btn' = [btn EXCEPT ![s] = _buttons_update(menu)]
    /\ Finish(s)
    /\ chain' = "ok"
    /\ UNCHANGED <<parse, base, menu, answers, owner>>

(***************************************************************************)
(* OneLayerFastFollow.rotate_next_layer                                    *)
(***************************************************************************)
\* list[j] is defined for -len <= j < len
InIndexRange(list, j) == -Len(list) <= j /\ j < Len(list)

\* list[j], a negative j counting from the end
ListItem(list, j) == IF j >= 0 THEN list[j + 1] ELSE list[Len(list) + j + 1]

\* the handler resumes after its first yield and calls rotate_next_layer;
\* line 92 raises IndexError
rotate_index_error(s) ==
    /\ frame[s].pc = "yielded"
    /\ ~InIndexRange(menu, frame[s].idx - 1)
    /\ Finish(s)
    /\ chain' = "broken"
    /\ UNCHANGED <<parse, base, menu, answers, chatbot, btn, owner>>

\* a rotate_next_layer that keeps the base question of the layer before as
\* base_question of its follow-up-answer calls
rotate_begin_old_base(s) ==
    LET choice_idx == frame[s].idx IN
    /\ frame[s].pc = "yielded"
    /\ InIndexRange(menu, choice_idx - 1)
    /\ LET selected_fu == ListItem(menu, choice_idx - 1)
           immediate == DictGet(answers, choice_idx, <<>>)
           ctx == <<"Base: ">> \o selected_fu \o <<"\nAnswer: ">> \o immediate
       IN  /\ base' = selected_fu
           /\ calls' = <<ProposeCall(ctx)>>
           /\ frame' = [frame EXCEPT ![s] =
                           [@ EXCEPT !.pc = "rot_propose",
                                     !.base_q = base,
                                     !.snap = FlowState]]
    /\ chain' = IF choice_idx \in 1..Len(menu) THEN chain ELSE "broken"
    /\ owner' = s
    /\ UNCHANGED <<parse, menu, answers, chatbot, btn>>

\* the handler resumes after its first yield and calls rotate_next_layer:
\* lines 92-96, up to the call of self.propose
rotate_begin(s) ==
    LET choice_idx == frame[s].idx IN
    /\ frame[s].pc = "yielded"
    /\ InIndexRange(menu, choice_idx - 1)
    /\ LET selected_fu == ListItem(menu, choice_idx - 1)
           immediate == DictGet(answers, choice_idx, <<>>)
           ctx == <<"Base: ">> \o selected_fu \o <<"\nAnswer: ">> \o immediate
       IN  /\ base' = selected_fu
           /\ calls' = <<ProposeCall(ctx)>>
           /\ frame' = [frame EXCEPT ![s] =
                           [@ EXCEPT !.pc = "rot_propose",
                                     !.base_q = selected_fu,
                                     !.snap = FlowState]]
    /\ chain' = IF choice_idx \in 1..Len(menu) THEN chain ELSE "broken"
    /\ owner' = s
    /\ UNCHANGED <<parse, menu, answers, chatbot, btn>>

\* a rotate_next_layer without self.answers.clear()
rotate_propose_no_clear(s) ==
    /\ frame[s].pc = "rot_propose"
    /\ \E raw \in Proposals :
          LET next_menu == _parse(raw, k) IN
          /\ menu' = next_menu
          /\ frame' = [frame EXCEPT ![s] =
                          [@ EXCEPT !.pc = "rot_fu", !.it = next_menu,
                                    !.pos = 1]]
          /\ calls' = Returned(calls, raw)
                          \o FirstFollowupCall(frame[s].base_q, next_menu)
    /\ owner' = s
    /\ UNCHANGED <<parse, answers, base, chatbot, btn, chain>>

\* self.propose returns: lines 96-99, up to the first call of the loop
rotate_propose(s) ==
    /\ frame[s].pc = "rot_propose"
    /\ \E raw \in Proposals :
          LET next_menu == _parse(raw, k) IN
          /\ menu' = next_menu
          /\ answers' = <<>>
          /\ frame' = [frame EXCEPT ![s] =
                          [@ EXCEPT !.pc = "rot_fu", !.it = next_menu,
                                    !.pos = 1]]
          /\ calls' = Returned(calls, raw)
                          \o FirstFollowupCall(frame[s].base_q, next_menu)
    /\ owner' = s
    /\ UNCHANGED <<parse, base, chatbot, btn, chain>>

\* self.answer_fu returns for one entry: lines 99-100
rotate_answer_fu(s) ==
    /\ frame[s].pc = "rot_fu"
    /\ frame[s].pos <= Len(frame[s].it)
    /\ \E a \in AnswerTexts :
          /\ answers' = DictSet(answers, frame[s].pos, a)
          /\ calls' = Returned(calls, a)
                          \o NextFollowupCall(frame[s].base_q, frame[s].it,
                                              frame[s].pos)
    /\ frame' = [frame EXCEPT ![s] = [@ EXCEPT !.pos = @ + 1]]
    /\ owner' = s
    /\ UNCHANGED <<parse, base, menu, chatbot, btn, chain>>

\* the loop is over: line 101, then the second yield of the handler
\* (lines 138-141 of submit_or_choose, lines 160-162 of choose_btn)
rotate_return(s) ==
    /\ frame[s].pc = "rot_fu"
    /\ frame[s].pos > Len(frame[s].it)
    /\ btn' = [btn EXCEPT ![s] = _buttons_update(menu)]
    /\ Finish(s)
    /\ UNCHANGED <<parse, base, menu, answers, chatbot, chain, owner>>

(***************************************************************************)
(* TextGenerator                                                           *)
(***************************************************************************)
\* a TextGenerator call is in flight in the handler of session s
CallInFlight(s) ==
    \/ frame[s].pc \in {"ask_main", "ask_propose", "rot_propose"}
    \/ /\ frame[s].pc \in {"ask_fu", "rot_fu"}
       /\ frame[s].pos <= Len(frame[s].it)

\* the call in flight raises; nothing in ask, rotate_next_layer or the
\* handlers catches it, so the handler ends with the error
generation_failure(s) ==
    /\ CallInFlight(s)
    /\ Finish(s)
    /\ chain' = "broken"
    /\ UNCHANGED <<parse, base, menu, answers, chatbot, btn, owner>>

(***************************************************************************)
(* The program.  Users take turns: each user action runs to its end before *)
(* the next one starts.  Spec is the program used from one session,        *)
(* SpecShared the program used from every session.                         *)
(***************************************************************************)
\* a step of the handler of session s
Handler(s) ==
    \/ \E user_text \in UserTexts : submit_no_menu(s, user_text)
    \/ \E user_text \in UserTexts : submit_select(s, user_text)
    \/ \E user_text \in UserTexts : submit_empty(s, user_text)
    \/ submit_empty_return(s)
    \/ \E user_text \in UserTexts : submit_ask(s, user_text)
    \/ \E i \in 1..MAX_BTNS : choose_btn(s, i)
    \/ ask_main(s)
    \/ ask_propose(s)
    \/ ask_answer_fu(s)
    \/ ask_return(s)
    \/ rotate_index_error(s)
    \/ rotate_begin(s)
    \/ rotate_propose(s)
    \/ rotate_answer_fu(s)
    \/ rotate_return(s)
    \/ generation_failure(s)

\* the session of Spec
Solo == {1}

Next == \E s \in Solo : Handler(s)

Spec == Init /\ [][Next]_vars

NextShared == \E s \in Sessions : Handler(s)

SpecShared == Init /\ [][NextShared]_vars

(***************************************************************************)
(* _parse on its own: every text of up to MaxLines lines drawn from        *)
(* ParseLines, every limit from 1 to MaxLimit; then _parse on the menu     *)
(* text _menu_text makes of the result.                                    *)
(***************************************************************************)
\*   "1. Q1"   " Q1 "   "- Q2"   "2.Q3"   "Follow-Ups: Q4"   "  "   "1."
ParseLines ==
    { <<"1", ".", " ">> \o Q1,
      <<" ">> \o Q1 \o <<" ">>,
      <<"-", " ">> \o Q2,
      <<"2", ".">> \o Q3,
      <<"F","o","l","l","o","w","-","U","p","s",":", " ">> \o Q4,
      <<" ", " ">>,
      <<"1", ".">> }

RECURSIVE LineSeqs(_)
\* the sequences of up to n lines
LineSeqs(n) ==
    IF n = 0 THEN { <<>> }
    ELSE LET shorter == LineSeqs(n - 1)
         IN  shorter \cup { Append(ls, l) : ls \in shorter, l \in ParseLines }

ParseTexts == { join(ls) : ls \in LineSeqs(MaxLines) }

InitParse ==
    /\ base = None
    /\ menu = <<>>
    /\ answers = <<>>
    /\ frame = [s \in Sessions |-> IdleFrame]
    /\ chatbot = [s \in Sessions |-> <<>>]
    /\ btn = [s \in Sessions |-> [i \in 1..MAX_BTNS |-> DefaultButton]]
    /\ calls = <<>>
    /\ chain = "none"
    /\ owner = 0
    /\ \E text \in ParseTexts, limit \in 1..MaxLimit :
          parse = [text |-> text, k |-> limit, items |-> <<>>, done |-> FALSE,
                   again |-> NoParse]

\* FollowupProposer._parse(text, k) is called and returns
parse_call ==
    /\ ~parse.done
    /\ parse' = [parse EXCEPT !.items = _parse(parse.text, parse.k),
                              !.done = TRUE]
    /\ UNCHANGED flowVars

\* the menu _parse returned is rendered by _menu_text and the text is
\* given to _parse again, with a limit that is its length or above it
parse_menu_text ==
    /\ parse.done
    /\ ~parse.again.done
    /\ \E limit \in {Len(parse.items), Len(parse.items) + 1} :
          /\ limit > 0
          /\ LET text == _menu_text(parse.items) IN
              parse' = [parse EXCEPT !.again =
                           [text |-> text, k |-> limit,
                            items |-> _parse(text, limit), done |-> TRUE]]
    /\ UNCHANGED flowVars

NextParse == parse_call \/ parse_menu_text

SpecParse == InitParse /\ [][NextParse]_vars

(***************************************************************************)
(* Properties.                                                             *)
(***************************************************************************)
Last(seq) == seq[Len(seq)]

\* the handler of session s calls peek_immediate in this step
PeekStep(s) == frame[s].pc = "idle" /\ frame'[s].pc = "yielded"

\* the handler of session s resumes after its first yield and calls
\* rotate_next_layer in this step
RotateCallStep(s) == frame[s].pc = "yielded" /\ frame'[s].pc # "yielded"

\* the TextGenerator call in flight in session s raises in this step
FailureStep(s) == CallInFlight(s) /\ frame'[s].pc = "idle"

\* C1: after an ask that returned, followed by rotate_next_layer calls with
\* valid indices whose TextGenerator calls all returned, the keys of the
\* answer cache are exactly 1..len(menu).
C1_CacheKeysAreMenuIndices ==
    (AllIdle /\ chain = "ok") => DOMAIN answers = 1..Len(menu)

\* a layer of two entries that replaced the layer of four entries in which
\* Q3 or Q4 was selected
C1_Witness ==
    /\ AllIdle
    /\ chain = "ok"
    /\ base \in {Q3, Q4}
    /\ Len(menu) = 2
    /\ DOMAIN answers = {1, 2}

\* the integers peek_immediate is tried on
PeekIndices == -1..(MAX_BTNS + 1)

\* C2: between operations, peek_immediate(i) returns the cached answer
\* stored at i for every i in 1..len(menu), and the range message naming
\* len(menu) for every other integer.
C2_PeekAnswersOrRangeMessage ==
    AllIdle =>
        \A i \in PeekIndices :
            IF 1 <= i /\ i <= Len(menu)
            THEN i \in DOMAIN answers /\ peek_immediate(i) = answers[i]
            ELSE peek_immediate(i) = RangeMessage(Len(menu))

\* C3: when a TextGenerator call fails during rotate_next_layer, base
\* question, menu and answer cache are what they were before the call.
C3_RotateFailureRestoresState ==
    [][\A s \in Sessions :
          (FailureStep(s) /\ frame[s].pc \in {"rot_propose", "rot_fu"})
              => FlowState' = frame[s].snap]_vars

\* C4: when a TextGenerator call fails during ask, the handler ends with
\* the failure and base question, menu and answer cache are what they were
\* before the call.
C4_AskFailureRestoresState ==
    [][\A s \in Sessions :
          (FailureStep(s) /\ frame[s].pc \in {"ask_main", "ask_propose", "ask_fu"})
              => FlowState' = frame[s].snap]_vars

\* C5: between operations, also after an operation that a TextGenerator
\* failure aborted, every index of the menu has an entry in the cache.
C5_EveryMenuIndexCached ==
    AllIdle => \A i \in 1..Len(menu) : i \in DOMAIN answers

\* C6: the step in which a handler calls peek_immediate leaves base
\* question, menu and answer cache as they are and issues no
\* TextGenerator call.
C6_PeekIsPureRead ==
    [][\A s \in Sessions :
          PeekStep(s) => UNCHANGED <<base, menu, answers, calls>>]_vars

\* peek_immediate has returned a cached answer to a handler
C6_Witness ==
    \E s \in Sessions :
        /\ frame[s].pc = "yielded"
        /\ frame[s].immediate \in AnswerTexts
        /\ frame[s].idx \in DOMAIN answers

\* C7: a selection flow calls rotate_next_layer only with an index that is
\* valid for the current menu; an index outside 1..len(menu) ends in the
\* message of peek_immediate, without rotation and without error.
C7_RotateOnlyWithValidIndex ==
    [][\A s \in Sessions :
          RotateCallStep(s) => frame[s].idx \in 1..Len(menu)]_vars

\* C8: in a selection flow the result of peek_immediate on the menu that
\* is about to be rotated away is appended to the transcript in a first
\* update that leaves the buttons alone; rotate_next_layer is called after
\* that update, and the buttons change only in the later update that ends
\* the flow, which leaves the transcript alone.
C8_ImmediateBeforeRotation ==
    [][\A s \in Sessions :
          /\ PeekStep(s) =>
                /\ chatbot'[s] = Append(chatbot[s],
                                        <<frame'[s].text, frame'[s].immediate>>)
                /\ btn'[s] = btn[s]
          /\ RotateCallStep(s) =>
                /\ chatbot[s] # <<>>
                /\ Last(chatbot[s]) = <<frame[s].text,
                                        peek_immediate(frame[s].idx)>>
          /\ frame[s].pc \in {"yielded", "rot_propose", "rot_fu"} =>
                /\ chatbot'[s] = chatbot[s]
                /\ btn'[s] # btn[s] =>
                      /\ frame[s].pc = "rot_fu"
                      /\ frame[s].pos > Len(frame[s].it)
                      /\ frame'[s].pc = "idle"]_vars

\* rotate_next_layer runs, the cached answer is the last entry of the
\* transcript and the buttons still show the menu being rotated away
C8_Witness ==
    \E s \in Sessions :
        /\ frame[s].pc = "rot_fu"
        /\ chatbot[s] # <<>>
        /\ Last(chatbot[s])[2] \in AnswerTexts
        /\ btn[s] = _buttons_update(frame[s].snap.menu)
        /\ menu # frame[s].snap.menu

\* C9: the flow state a session's peek_immediate / rotate_next_layer works
\* on was last written by that session itself.
C9_SessionOwnsItsState ==
    \A s \in Sessions :
        frame[s].pc \in {"yielded", "rot_propose", "rot_fu"} => owner = s

\* what each line of a text holds: a question (the line has a non-space
\* character and, its marker and surrounding blanks removed, is not a
\* header), or nothing
LineQuestions(text) ==
    LET lines == splitlines(text) IN
    [i \in 1..Len(lines) |->
        LET m == ReMatch(lines[i])
            t == strip(m.group1)
        IN  [is |-> m.ok /\ t # <<>> /\ ~IsHeader(t), text |-> t]]

\* the lines that hold the first occurrence of their question
FirstOccurrences(q) ==
    { i \in DOMAIN q :
        /\ q[i].is
        /\ \A j \in 1..(i - 1) : q[j].is => q[j].text # q[i].text }

Min(a, b) == IF a <= b THEN a ELSE b

\* C10: _parse(text, k) with k > 0 returns at most k items, no two of them
\* equal; item n is the question of the n-th line that holds a first
\* occurrence, so first occurrences are kept in input order and
\* every line after the one that gave item k is ignored.
C10_ParseFirstOccurrencesUpToLimit ==
    parse.done =>
        LET q == LineQuestions(parse.text)
            first == FirstOccurrences(q)
        IN  /\ Len(parse.items) <= parse.k
            /\ \A a, b \in 1..Len(parse.items) :
                  a # b => parse.items[a] # parse.items[b]
            /\ Len(parse.items) = Min(parse.k, Cardinality(first))
            /\ \A n \in 1..Len(parse.items) :
                  \E i \in first :
                      /\ Cardinality({j \in first : j < i}) = n - 1
                      /\ parse.items[n] = q[i].text

\* a repeated question was dropped before the limit was reached, and a
\* further new question after the limit was ignored
C10_Witness ==
    /\ parse.done
    /\ parse.k = 2
    /\ Len(parse.items) = 2
    /\ LET q == LineQuestions(parse.text)
           first == FirstOccurrences(q)
       IN  /\ Cardinality(first) = 3
           /\ \E i \in DOMAIN q :
                 /\ q[i].is
                 /\ i \notin first
                 /\ \E j \in first : j > i /\ q[j].text = parse.items[2]

\* C11: the menu _parse returned, rendered by _menu_text as the lines
\* "i. question" under the title "Follow-ups:" and given to _parse again
\* with any limit that is not below its length, comes back as it was.
C11_MenuTextParsesBack ==
    parse.again.done => parse.again.items = parse.items

\* a menu of three entries, one of them the entry "1." that reads like a
\* marker itself, came back from a second _parse whose limit is above its
\* length
C11_Witness ==
    /\ parse.again.done
    /\ Len(parse.items) = 3
    /\ parse.again.k > 3
    /\ \E i \in 1..3 : parse.items[i] = <<"1", ".">>
    /\ parse.again.items = parse.items

\* the handler of session s gets the parsed proposal in this step
ProposeReturnStep(s) ==
    /\ frame[s].pc \in {"ask_propose", "rot_propose"}
    /\ frame'[s].pc \in {"ask_fu", "rot_fu"}

\* a selection starts in session s in this step: its handler adds an entry
\* to the transcript before any TextGenerator call
SelectionStep(s) == frame[s].pc = "idle" /\ chatbot'[s] # chatbot[s]

\* C12: when the proposal parses to no question, ask / rotate_next_layer
\* goes on to its end with an empty menu, an empty cache and no call left
\* that could fail; while the menu is empty every selection adds an
\* out-of-range message to the transcript, leaves base question, menu and
\* cache alone, and never reaches rotate_next_layer, which would raise.
C12_EmptyMenuRefusesSelections ==
    [][\A s \in Sessions :
          /\ (ProposeReturnStep(s) /\ menu' = <<>>) =>
                /\ answers' = <<>>
                /\ frame'[s].pos > Len(frame'[s].it)
          /\ (menu = <<>> /\ SelectionStep(s)) =>
                /\ UNCHANGED <<base, menu, answers>>
                /\ Last(chatbot'[s])[2] \in {NoFollowups, RangeMessage(0)}
          /\ menu = <<>> => ~RotateCallStep(s)]_vars

\* the handler of session s returns in this step: a user action is completed
ReturnStep(s) ==
    /\ frame'[s].pc = "idle"
    /\ \/ frame[s].pc \in {"ask_fu", "rot_fu"} /\ frame[s].pos > Len(frame[s].it)
       \/ frame[s].pc = "blank"
       \/ frame[s].pc = "idle" /\ chatbot'[s] # chatbot[s]

\* the buttons of session s show the menu m: button i is visible with the
\* label m[i] exactly when i <= len(m)
Mirrors(s, m) ==
    \A i \in 1..MAX_BTNS :
        IF i <= Len(m)
        THEN btn[s][i].visible /\ btn[s][i].value = m[i]
        ELSE ~btn[s][i].visible

\* C13: after every completed user action (ask, selection, empty input)
\* the MAX_BTNS buttons of the session mirror the current menu.
C13_ButtonsMirrorMenu ==
    [][\A s \in Sessions : ReturnStep(s) => Mirrors(s, menu)']_vars

\* the handler of session s is inside ask
InAsk(s) == frame[s].pc \in {"ask_main", "ask_propose", "ask_fu"}

\* the positions of the calls of one kind in a log of TextGenerator calls
CallsOfKind(log, kind) == { i \in 1..Len(log) : log[i].kind = kind }

\* C14: a handler that starts on an input which, trimmed, is neither empty
\* nor all digits calls ask with the trimmed text and touches neither
\* transcript nor buttons; from there it never gets to peek_immediate or
\* rotate_next_layer; ask has issued exactly one Answer call, for that text,
\* when it returns; and transcript and buttons change only in the one
\* update that ends the handler, which sets both.
C14_QuestionsGoToAskOnce ==
    [][\A s \in Sessions :
          /\ ( /\ frame[s].pc = "idle"
               /\ frame'[s].pc # "idle"
               /\ frame'[s].text # <<>>
               /\ ~isdigit(frame'[s].text) ) =>
                /\ frame'[s].pc = "ask_main"
                /\ strip(frame'[s].text) = frame'[s].text
                /\ base' = frame'[s].text
                /\ calls' = <<AnswerCall(frame'[s].text)>>
                /\ chatbot'[s] = chatbot[s]
                /\ btn'[s] = btn[s]
          /\ InAsk(s) =>
                /\ InAsk(s)' \/ frame'[s].pc = "idle"
                /\ ~isdigit(frame[s].text)
                /\ IF ReturnStep(s)
                   THEN /\ CallsOfKind(calls, "Answer") = {1}
                        /\ calls[1].args = <<frame[s].text>>
                        /\ chatbot'[s] =
                              Append(chatbot[s],
                                     <<frame[s].text,
                                       calls[1].result \o _menu_text(menu)>>)
                        /\ btn'[s] = _buttons_update(menu)
                   ELSE chatbot'[s] = chatbot[s] /\ btn'[s] = btn[s]]_vars

\* the question " hi" was asked: the transcript ends with the trimmed text
\* and an answer that lists the menu, and the buttons show that menu
C14_Witness ==
    \E s \in Sessions :
        /\ frame[s].pc = "idle"
        /\ chatbot[s] # <<>>
        /\ Last(chatbot[s])[1] = <<"h", "i">>
        /\ \E a \in MainAnswers : Last(chatbot[s])[2] = a \o _menu_text(menu)
        /\ menu # <<>>
        /\ btn[s] = _buttons_update(menu)

\* C15: a handler that starts on an input which is empty once trimmed goes
\* to its yield and from there to its end; in neither step is a
\* TextGenerator call issued or base question, menu, cache, transcript or
\* a button changed.
C15_BlankInputIsNoOp ==
    [][\A s \in Sessions :
          /\ ( /\ frame[s].pc = "idle"
               /\ frame'[s].pc # "idle"
               /\ frame'[s].text = <<>> ) => frame'[s].pc = "blank"
          /\ frame[s].pc = "blank" => frame'[s].pc = "idle"
          /\ (frame[s].pc = "blank" \/ frame'[s].pc = "blank") =>
                /\ calls = <<>>
                /\ UNCHANGED <<base, menu, answers, calls>>
                /\ chatbot'[s] = chatbot[s]
                /\ btn'[s] = btn[s]]_vars

\* the handler is at its yield for a blank input given while a menu with
\* cached answers is on show
C15_Witness ==
    \E s \in Sessions :
        /\ frame[s].pc = "blank"
        /\ frame[s].text = <<>>
        /\ chatbot[s] # <<>>
        /\ menu # <<>>
        /\ DOMAIN answers = 1..Len(menu)
        /\ btn[s] = _buttons_update(menu)

\* the cache a is what the follow-up-answer calls of the log returned: the
\* j-th of these calls was made with (b, m[j]) and its result is a[j]
CacheFromCalls(log, b, m, a) ==
    LET fu == CallsOfKind(log, "FollowupAnswer") IN
    /\ Cardinality(fu) = Len(m)
    /\ DOMAIN a = 1..Len(m)
    /\ \A j \in 1..Len(m) :
          \E i \in fu :
              /\ Cardinality({x \in fu : x < i}) = j - 1
              /\ log[i].args = <<b, m[j]>>
              /\ log[i].result = a[j]

\* C16: when ask(q) returns the base question is q; when
\* rotate_next_layer(i) returns, i an index of the menu it was called on,
\* the base question is entry i of that menu; in both cases every entry j
\* of the cache is the result of the follow-up-answer call made with
\* (base question, menu[j]).
C16_BaseAndCacheOfNewLayer ==
    [][\A s \in Sessions :
          ReturnStep(s) =>
              /\ frame[s].pc = "ask_fu" =>
                    /\ base' = frame[s].text
                    /\ CacheFromCalls(calls, base', menu', answers')
              /\ ( /\ frame[s].pc = "rot_fu"
                   /\ frame[s].idx \in 1..Len(frame[s].snap.menu) ) =>
                    /\ base' = frame[s].snap.menu[frame[s].idx]
                    /\ CacheFromCalls(calls, base', menu', answers')]_vars

\* rotate_next_layer(2) is about to return a layer of four entries whose
\* base question is the second entry of the menu it was called on
C16_Witness ==
    \E s \in Sessions :
        /\ frame[s].pc = "rot_fu"
        /\ frame[s].pos > Len(frame[s].it)
        /\ frame[s].idx = 2
        /\ Len(frame[s].snap.menu) >= 2
        /\ base = frame[s].snap.menu[2]
        /\ base # frame[s].snap.base
        /\ Len(menu) = 4
        /\ DOMAIN answers = 1..4

\* a line that holds an enumeration marker and nothing else: digits and
\* ".", or a bullet, between optional blanks
BareMarker(line) ==
    LET t == strip(line) IN
    \/ t \in { <<"-">>, <<BULLET>> }
    \/ /\ Len(t) >= 2
       /\ Last(t) = "."
       /\ isdigit(SubSeq(t, 1, Len(t) - 1))

\* C17: a line that is empty once its enumeration marker is stripped (only
\* "1.", "-" or a bullet, between optional blanks) contributes no entry:
\* _parse returns what it returns for the text without these lines.
C17_BareMarkerLinesGiveNoEntry ==
    parse.done =>
        LET kept == SelectSeq(splitlines(parse.text),
                              LAMBDA line : ~BareMarker(line))
        IN  parse.items = _parse(join(kept), parse.k)

\* a line whose leading digits and "." or bullet is followed at once by a
\* character that is not a blank
TightMarker(line) ==
    LET t == strip(line)
        rest == DropDigits(t)
    IN  \/ /\ Len(t) >= 2
           /\ t[1] \in {"-", BULLET}
           /\ ~IsSpace(t[2])
        \/ /\ Len(rest) >= 2
           /\ Len(rest) < Len(t)
           /\ rest[1] = "."
           /\ ~IsSpace(rest[2])

\* C18: a marker is stripped only when blanks follow it: a line whose
\* leading digits and "." or bullet is followed at once by another
\* character is kept as its whole trimmed text, so unless that text is a
\* header it is an item of the result or the limit was reached without it.
C18_MarkerNeedsWhitespace ==
    parse.done =>
        LET lines == splitlines(parse.text) IN
        \A i \in 1..Len(lines) :
            (TightMarker(lines[i]) /\ ~IsHeader(strip(lines[i]))) =>
                \/ \E n \in 1..Len(parse.items) :
                      parse.items[n] = strip(lines[i])
                \/ Len(parse.items) = parse.k

\* the calls of the log from position first on are the follow-up-answer
\* calls for the entries of m, in the order of m, and all have returned
FollowupCallsInMenuOrder(log, first, m) ==
    /\ Len(log) = first - 1 + Len(m)
    /\ \A j \in 1..Len(m) :
          /\ log[first - 1 + j].kind = "FollowupAnswer"
          /\ log[first - 1 + j].args[2] = m[j]
          /\ log[first - 1 + j].result # InFlight

\* C19: when ask returns it has issued one Answer call, then one
\* ProposeFollowups call, then one FollowupAnswer call per entry of the
\* menu, at most MAX_BTNS, in menu order, and all have returned; when
\* rotate_next_layer(i) returns, i an index of the menu it was called on,
\* it has issued no Answer call, one ProposeFollowups call whose context is
\* made of entry i of that menu and the answer the cache held for i, then
\* one FollowupAnswer call per entry of the new menu in menu order; no
\* operation issues more than 2 + MAX_BTNS calls.
C19_CallProtocol ==
    [][\A s \in Sessions :
          /\ Len(calls) <= 2 + MAX_BTNS
          /\ ReturnStep(s) =>
              /\ frame[s].pc = "ask_fu" =>
                    /\ Len(menu) <= MAX_BTNS
                    /\ Len(calls) >= 2
                    /\ calls[1].kind = "Answer"
                    /\ calls[1].result # InFlight
                    /\ calls[2].kind = "ProposeFollowups"
                    /\ calls[2].result # InFlight
                    /\ FollowupCallsInMenuOrder(calls, 3, menu)
              /\ ( /\ frame[s].pc = "rot_fu"
                   /\ frame[s].idx \in 1..Len(frame[s].snap.menu) ) =>
                    /\ Len(menu) <= MAX_BTNS
                    /\ Len(calls) >= 1
                    /\ calls[1].kind = "ProposeFollowups"
                    /\ calls[1].result # InFlight
                    /\ frame[s].idx \in DOMAIN frame[s].snap.answers
                    /\ calls[1].args =
                          << <<"Base: ">> \o frame[s].snap.menu[frame[s].idx]
                               \o <<"\nAnswer: ">>
                               \o frame[s].snap.answers[frame[s].idx] >>
                    /\ FollowupCallsInMenuOrder(calls, 2, menu)]_vars

\* the text begins, whatever its case, with "follow-ups", "followups" or
\* "questions:"
BeginsWithHeaderPhrase(t) ==
    \E phrase \in { <<"f","o","l","l","o","w","-","u","p","s">>,
                     <<"f","o","l","l","o","w","u","p","s">>,
                     <<"q","u","e","s","t","i","o","n","s",":">> } :
        /\ Len(t) >= Len(phrase)
        /\ \A i \in 1..Len(phrase) : LowerChar(t[i]) = phrase[i]

\* C20: in every reachable state the menu has at most MAX_BTNS entries, no
\* two of them equal and none beginning with a header phrase, and no
\* visible button is labelled with a header.
C20_MenuBoundedDistinctNoHeader ==
    /\ Len(menu) <= MAX_BTNS
    /\ \A i, j \in 1..Len(menu) : i # j => menu[i] # menu[j]
    /\ \A i \in 1..Len(menu) : ~BeginsWithHeaderPhrase(menu[i])
    /\ \A s \in Sessions, i \in 1..MAX_BTNS :
          btn[s][i].visible => ~BeginsWithHeaderPhrase(btn[s][i].value)

\* the menu on show comes from a proposal of four lines that began with
\* the header "Follow-ups:" and held a question twice
C20_Witness ==
    /\ Len(menu) = 2
    /\ \E s \in Sessions : frame[s].pc = "rot_fu" /\ btn[s][1].visible
    /\ \E n \in 1..Len(calls) :
          /\ calls[n].kind = "ProposeFollowups"
          /\ calls[n].result # InFlight
          /\ LET lines == splitlines(calls[n].result) IN
              /\ Len(lines) = 4
              /\ BeginsWithHeaderPhrase(lines[1])
              /\ menu = _parse(calls[n].result, MAX_BTNS)

=============================================================================
